---- MODULE Spec2Model ----
(***************************************************************************)
(* ChocoPi voice assistant: the wake -> converse loop (ChocoPi.run), one   *)
(* conversation session with the Realtime API (ConversationSession), the   *)
(* process-wide audio manager (AudioManager, the global AUDIO) and the     *)
(* wake-word detector (WakeWordDetector.listen).                           *)
(*                                                                         *)
(* Spec       the whole program: the asyncio event loop's tasks (main      *)
(*            task, upload consumer, playback-completion pollers), the     *)
(*            audio driver's capture callback and the remote peer.         *)
(* SpecAudio  the AudioManager alone, driven by every sequence of calls    *)
(*            of its public methods, as a mock-device harness would.       *)
(* SpecWake   WakeWordDetector.listen alone, called again and again, with  *)
(*            the frames of its capture callback and the scorer's results. *)
(* SpecGain   gain_callback, the wrapper start_recording puts around the   *)
(*            capture callback, on every frame and gain of a bounded set.  *)
(* SpecSleep  _is_sleep_word, the termination-phrase matcher, on every     *)
(*            phrase, transcript and threshold of a bounded set.           *)
(* SpecLanguage  the top of ChocoPi.run's loop for every profile of the    *)
(*            configuration: the wake word listen() returns, the language  *)
(*            _wake_word_language gives it, the session's construction.    *)
(***************************************************************************)
EXTENDS Integers, Sequences, FiniteSets, TLC

\* ------------------------------------------------------------ bounds
\* Distinct device handles the model tells apart.
MaxStreams == 3
\* Responses requested from the remote and not yet done.
MaxPending == 2
\* Audio deltas the remote sends for one response.
MaxDeltas == 2
\* Chunks the response buffer holds.
MaxChunks == 3
\* playback_completion tasks alive at the same time.
MaxPolls == 2
\* Frames the capture callback delivers in one session.
MaxFrames == 2
\* Frames the wake-word capture callback is handed, over all calls of listen().
MaxWakeFrames == 5
\* CONFIG['openwakeword']['queue_maxsize'], the capacity of the wake-word queue.
queue_maxsize == 2
\* Wake-word models the detector loads, one per configured language.
MaxModels == 3
\* Input gains run over 0, 1/4, 2/4, ... MaxGain/4.
MaxGain == 12
\* Small samples -MaxSample..MaxSample, next to the large ones.
MaxSample == 3
\* Characters of a transcript drawn from the alphabet.
MaxTextLen == 3

VARIABLES
    main_pc,          \* ChocoPi.run: "idle" | "listening" | "session" | "done"
    main_exit,        \* why ChocoPi.run's loop was left
    AUDIO,            \* the global AudioManager
    pc,               \* ConversationSession.run: where the main task stands
    websocket,        \* "none" | "open" | "closed"
    response_chunks,  \* self.response_chunks: each chunk "cur" (a delta of the
                      \* response being synthesized) or "old" (of an earlier one)
    audio_queue,      \* self.audio_queue: captured frames not yet sent
    is_active,
    is_greeting,
    is_terminating,
    transcript_log,   \* TRUE when self.transcript_log is non-empty
    upload_task,      \* "none" | "running" | "failed" | "finished" | "cancelled"
    poll_tasks,       \* playback_completion tasks created by create_task
    exit_cause,       \* how the receive loop of run() was left
    pending,          \* remote: kinds of the responses requested and not yet done
    cur_deltas,       \* remote: deltas sent since the last response.done
    cur_interrupted,  \* a speech_started was handled since the last response.done
    last_done,        \* kind of the response whose response.done was handled last
    captured,         \* frames delivered by the capture callback this session
    sent,             \* frames sent as input_audio_buffer.append, in send order
    memory,           \* self.memory as save_memory writes it: "loaded" (as
                      \* load_memory returned it), "summarized" or "local"
    scenario,         \* how far the session has followed the end-to-end script
    faithful,         \* every response of the script was played from exactly
                      \* its own deltas
    wake_queue,       \* WakeWordDetector.audio_queue: frames waiting for predict
    scorer,           \* frames the scorer's rolling buffers were fed since reset
    wake_captured,    \* frames the wake-word capture callback was handed so far
    listen_from,      \* wake_captured when the current listen() call began
    prediction,       \* listen(): what predict() returned last in this call
    wake_word,        \* what the last call of listen() returned
    profile,          \* ChocoPi.profile: the active profile of the configuration
    lang,             \* ChocoPi.run: what _wake_word_language returned last
    is_speaking,      \* DisplayManager.is_speaking: the speaking animation is on
    input_gain,       \* start_recording's input_gain, in quarters
    indata,           \* the frame the driver hands to gain_callback
    processed,        \* the frame gain_callback hands to the consumer
    sleep_word,       \* lang_config['sleep_word']
    text,             \* the transcript handed to _is_sleep_word
    sleep_word_threshold,  \* session_config['sleep_word_threshold']
    sleep_match       \* what _is_sleep_word returned: "none" before the call

vars == <<main_pc, main_exit, AUDIO, pc, websocket, response_chunks, audio_queue,
          is_active, is_greeting, is_terminating, transcript_log, upload_task,
          poll_tasks, exit_cause, pending, cur_deltas, cur_interrupted,
          last_done, captured, sent, memory, scenario, faithful,
          wake_queue, scorer, wake_captured, listen_from, prediction,
          wake_word, profile, lang, is_speaking, input_gain, indata,
          processed, sleep_word, text, sleep_word_threshold, sleep_match>>

session_vars == <<pc, websocket, response_chunks, audio_queue, is_active,
                  is_greeting, is_terminating, transcript_log, upload_task,
                  poll_tasks, exit_cause, pending, cur_deltas,
                  cur_interrupted, last_done, captured, sent, memory,
                  scenario, faithful>>

main_vars == <<main_pc, main_exit>>

detector_vars == <<wake_queue, scorer, wake_captured, listen_from, prediction,
                   wake_word>>

profile_vars == <<profile, lang>>

display_vars == <<is_speaking>>

gain_vars == <<input_gain, indata, processed>>

sleep_vars == <<sleep_word, text, sleep_word_threshold, sleep_match>>

\* The variables of the units that are also checked alone.
unit_vars == <<profile_vars, gain_vars, sleep_vars>>

\* ------------------------------------------------------------ AudioManager
INT16_MIN == -32768
INT16_MAX == 32767

\* A gain is a number of quarters: GainOne is the gain 1.0.  Every product of
\* a sample and such a gain is exact in float32.
GainOne == 4
Gains == 0..MaxGain

\* int16 samples: the ends of the range, small ones and multiples of 4096.
Samples ==
    {INT16_MIN, INT16_MIN + 1, INT16_MAX - 1, INT16_MAX} \cup
    (-MaxSample..MaxSample) \cup {k * 4096 : k \in -7..7}

\* Frames of one or two samples.
Frames == {<<x>> : x \in Samples} \cup {<<x, y>> : <<x, y>> \in Samples \X Samples}
NoFrame == <<>>

\* np.clip on a value in quarters.
clip_off(v, lo, hi) == v

clip(v, lo, hi) == IF v < lo THEN lo ELSE IF v > hi THEN hi ELSE v

\* .astype(np.int16) of a float in quarters: truncation toward zero, and the
\* low 16 bits of the integer when it is out of range.
astype_int16(v) ==
    LET t == IF v >= 0 THEN v \div GainOne ELSE -((-v) \div GainOne)
    IN  ((t - INT16_MIN) % 65536) + INT16_MIN

\* gain_callback: what the wrapped callback is handed for a frame.
gain_callback(frame, gain, dtype) ==
    IF gain # GainOne
    THEN IF dtype = "int16"
         THEN [i \in DOMAIN frame |->
                  astype_int16(clip(frame[i] * gain, INT16_MIN * GainOne,
                                    INT16_MAX * GainOne))]
         ELSE [i \in DOMAIN frame |-> frame[i] * gain]
    ELSE frame

NoStream == 0
Streams == 1..MaxStreams

\* "cue" is a lifecycle cue (awake, bye), "sent" the acknowledgement cue of a
\* session, "greeting" the audio of the greeting response, "resp" the audio
\* of any later response.
PlayKinds == {"cue", "sent", "greeting", "resp"}
\* self.play_obj: None, a play object that is sounding, or one that has ended.
NoPlay == [kind |-> "none", active |-> FALSE]
EndedPlay == [kind |-> "ended", active |-> FALSE]

\* AudioManager.__init__
AudioInit ==
    [input_stream |-> NoStream, open_streams |-> {}, play_obj |-> NoPlay,
     orphans |-> FALSE]

\* sd.InputStream(...): a handle that is neither open nor still referenced.
FreshStream(a) ==
    CHOOSE s \in Streams :
        /\ s \notin a.open_streams
        /\ s # a.input_stream
        /\ \A t \in Streams :
               (t \notin a.open_streams /\ t # a.input_stream) => s <= t

HasFreshStream(a) ==
    \E s \in Streams : s \notin a.open_streams /\ s # a.input_stream

\* self.input_stream refers to a stream that was closed: stop() on it raises.
StaleStream(a) ==
    a.input_stream # NoStream /\ a.input_stream \notin a.open_streams

RecordingOutcomes == {"ok", "open_fails"}

\* The mutant of start_recording: the old stream is left open.
start_recording_keeps_old(a, outcome) ==
    IF StaleStream(a) THEN a
    ELSE IF outcome = "ok"
         THEN [a EXCEPT !.input_stream = FreshStream(a),
                        !.open_streams = @ \cup {FreshStream(a)}]
         ELSE a

\* AudioManager.start_recording: stop and close the existing stream, then open
\* and start the new one.  outcome "open_fails": sd.InputStream raises, after
\* the old stream was closed, and self.input_stream is not reassigned.
start_recording(a, outcome) ==
    IF StaleStream(a) THEN a
    ELSE LET closed == [a EXCEPT !.open_streams = @ \ {a.input_stream}]
         IN  IF outcome = "ok"
             THEN [closed EXCEPT !.input_stream = FreshStream(a),
                                 !.open_streams = @ \cup {FreshStream(a)}]
             ELSE closed

\* The mutant of start_recording_raises: a device that fails to open is
\* logged and the caller goes on.
start_recording_swallows(a, outcome) == FALSE

start_recording_raises(a, outcome) ==
    StaleStream(a) \/ outcome # "ok"

\* The mutant of stop_recording: the stream is closed but self.input_stream
\* keeps referring to it.
stop_recording_keeps_handle(a) ==
    IF a.input_stream = NoStream \/ StaleStream(a) THEN a
    ELSE [a EXCEPT !.open_streams = @ \ {a.input_stream}]

\* AudioManager.stop_recording
stop_recording(a) ==
    IF a.input_stream = NoStream \/ StaleStream(a) THEN a
    ELSE [a EXCEPT !.open_streams = @ \ {a.input_stream},
                   !.input_stream = NoStream]

stop_recording_raises(a) == StaleStream(a)

\* AudioManager.start_playing: on success the new play object replaces
\* self.play_obj; the playback it referred to, if still sounding, goes on
\* unreferenced (orphans).  A decode or device error is logged and nothing
\* changes.
start_playing(a, kind, ok) ==
    IF ok
    THEN [a EXCEPT !.play_obj = [kind |-> kind, active |-> TRUE],
                   !.orphans = @ \/ a.play_obj.active]
    ELSE a

\* The mutant of start_playing_raises: a decode or device error reaches the
\* caller.
start_playing_propagates(a, kind, ok) == ~ok

\* start_playing catches every Exception of the decode and of the device and
\* logs it: no outcome of a playback request raises to the caller.
start_playing_raises(a, kind, ok) == FALSE

\* The mutant of stop_playing: capture is stopped together with playback.
stop_playing_stops_capture(a) ==
    [a EXCEPT !.play_obj = NoPlay, !.open_streams = {}, !.input_stream = NoStream]

\* AudioManager.stop_playing
stop_playing(a) == [a EXCEPT !.play_obj = NoPlay]

\* AudioManager.is_playing
is_playing(a) == a.play_obj.active

\* The capture stream AUDIO refers to is open.
Capturing(a) == a.input_stream # NoStream /\ a.input_stream \in a.open_streams


\* ------------------------------------------------------------ WakeWordDetector
\* self.model.reset() at the start of listen(): the scorer's prediction and
\* audio feature buffers are emptied.
model_reset(s) == {}

\* self.model.predict(chunk): the frame enters the scorer's rolling buffers.
predict(s, frame) == s \cup {frame}

\* The keys of the prediction: the loaded models, in the order of
\* self.model_paths.
Keywords == 1..MaxModels
NoPrediction == <<>>
NoWakeWord == 0
\* self.config['threshold']
threshold == 1
\* The scores predict() gives a keyword: below, at and above the threshold.
Scores == (threshold - 1)..(threshold + 1)
Predictions == [Keywords -> Scores]

\* What one call of self.model.predict can do: raise, or return a score for
\* every keyword.
PredictOutcomes ==
    {[raises |-> TRUE, scores |-> NoPrediction]} \cup
    {[raises |-> FALSE, scores |-> p] : p \in Predictions}

\* max(prediction.items(), key=lambda x: x[1]): the first item, in the order
\* of the dict, whose score no other item exceeds.
best(p) ==
    CHOOSE k \in DOMAIN p :
        /\ \A j \in DOMAIN p : p[j] <= p[k]
        /\ \A j \in DOMAIN p : j < k => p[j] < p[k]

\* ------------------------------------------------------------ ChocoPi
\* CONFIG['languages']: the configured languages in the order of the dict;
\* the model of language l is the l-th model the detector loads.
Languages == Keywords
model(l) == l
NoLanguage == 0

Range(f) == {f[i] : i \in DOMAIN f}

\* The keys of a profile's learning_languages, in the order of the dict: one
\* or two configured languages other than the native one.
LearningLanguages(native) ==
    {<<l>> : l \in Languages \ {native}} \cup
    {<<l, m>> : <<l, m>> \in {x \in (Languages \ {native}) \X (Languages \ {native}) : x[1] # x[2]}}

\* CONFIG["profiles"][CONFIG["active_profile"]]: what the active profile can be.
Profiles ==
    UNION {{[native_language |-> n, learning_languages |-> ll] :
               ll \in LearningLanguages(n)} : n \in Languages}

\* ChocoPi._wake_word_language: the first configured language whose model is
\* the wake word and which is not the native language, else the first key of
\* the profile's learning_languages.
wake_word_language(p, w) ==
    LET found == {l \in Languages : model(l) = w /\ l # p.native_language}
    IN  IF found # {}
        THEN CHOOSE l \in found : \A m \in found : l <= m
        ELSE p.learning_languages[1]

\* ConversationSession.__init__: the lookups of the learning language in
\* CONFIG["languages"] and in the profile's learning_languages raise KeyError
\* for a language that is not a key.
session_init_raises(p, l) ==
    l \notin Languages \/ l \notin Range(p.learning_languages)

activates_at_threshold(score) == score >= threshold

\* if score > self.config['threshold']
activates(score) == score > threshold

\* The mutant of new_audio_queue: listen() goes on with the queue it has.
new_audio_queue_keeps(q) == q

\* self.audio_queue = queue.Queue(maxsize=self.queue_maxsize) in listen().
new_audio_queue(q) == <<>>

\* queue.Queue.put_nowait raises queue.Full when a maxsize > 0 is reached.
WakeFull(q) == queue_maxsize > 0 /\ Len(q) >= queue_maxsize

\* The mutant of audio_callback: the frame is queued whatever the length.
audio_callback_unbounded(q, frame) == Append(q, frame)

\* audio_callback of listen(), on the driver's thread: put_nowait, and on
\* queue.Full the frame it was handed is dropped with a warning.
audio_callback(q, frame) == IF WakeFull(q) THEN q ELSE Append(q, frame)

\* The mutant of listen_finally: listen() ends without its finally clause.
listen_finally_skipped(a) == a

\* `finally: AUDIO.stop_recording()` of listen().
listen_finally(a) == stop_recording(a)

\* ------------------------------------------------------------ termination phrase
\* A string is a sequence of one-character strings.
Alphabet == {"a", "b", "A", " ", "!"}

Max(a, b) == IF a >= b THEN a ELSE b
Min(a, b) == IF a <= b THEN a ELSE b

\* str.lower, on the letters the model uses.
lower_char(c) ==
    CASE c = "A" -> "a"
      [] c = "B" -> "b"
      [] c = "G" -> "g"
      [] c = "N" -> "n"
      [] OTHER -> c

lower(s) == [i \in DOMAIN s |-> lower_char(s[i])]

RECURSIVE lstrip(_)
lstrip(s) == IF s # <<>> /\ Head(s) = " " THEN lstrip(Tail(s)) ELSE s

RECURSIVE rstrip(_)
rstrip(s) ==
    IF s # <<>> /\ s[Len(s)] = " " THEN rstrip(SubSeq(s, 1, Len(s) - 1)) ELSE s

\* str.strip
strip(s) == rstrip(lstrip(s))

IsPunctuation(c) == c \in {",", ".", "!", "?"}

\* re.sub(r'[,.!?]', '', s)
re_sub(s) == SelectSeq(s, LAMBDA c : ~IsPunctuation(c))

\* One row of the longest-common-subsequence table: row holds the entries
\* for the first Len(row) - 1 characters of b, prev the row before.
RECURSIVE LCSRow(_, _, _, _)
LCSRow(prev, c, b, row) ==
    IF Len(row) = Len(b) + 1
    THEN row
    ELSE LET j == Len(row)
         IN  LCSRow(prev, c, b,
                    Append(row, IF c = b[j] THEN prev[j] + 1
                                ELSE Max(prev[j + 1], row[j])))

RECURSIVE LCSRows(_, _, _, _)
LCSRows(a, b, i, prev) ==
    IF i > Len(a)
    THEN prev[Len(b) + 1]
    ELSE LCSRows(a, b, i + 1, LCSRow(prev, a[i], b, <<0>>))

\* The length of a longest common subsequence of a and b.
lcs(a, b) == LCSRows(a, b, 1, [j \in 1..(Len(b) + 1) |-> 0])

\* A score is the fraction num / den, on the scale 0..100.
AtLeast(p, q) == p.num * q.den >= q.num * p.den

\* rapidfuzz fuzz.ratio: 100 * (1 - indel distance / (len1 + len2)).
ratio(a, b) ==
    IF a = <<>> /\ b = <<>>
    THEN [num |-> 100, den |-> 1]
    ELSE [num |-> 200 * lcs(a, b), den |-> Len(a) + Len(b)]

\* The windows a string of length m is aligned with in long: every window
\* of length m, and the shorter ones that overhang either end.
Windows(m, long) ==
    {SubSeq(long, Max(1, i - m + 1), Min(i, Len(long))) :
        i \in 1..(Len(long) + m - 1)}

\* rapidfuzz fuzz.partial_ratio: the best ratio of the shorter string with
\* a window of the longer one; 0 when exactly one string is empty.
partial_ratio(a, b) ==
    IF a = <<>> \/ b = <<>>
    THEN [num |-> IF a = b THEN 100 ELSE 0, den |-> 1]
    ELSE LET cands ==
                 (IF Len(a) <= Len(b)
                  THEN {ratio(a, w) : w \in Windows(Len(a), b)} ELSE {}) \cup
                 (IF Len(b) <= Len(a)
                  THEN {ratio(b, w) : w \in Windows(Len(b), a)} ELSE {})
         IN  CHOOSE r \in cands : \A q \in cands : AtLeast(r, q)

score_above(score, t) == score.num > t * score.den

\* score >= threshold
score_reaches(score, t) == score.num >= t * score.den

\* ConversationSession._is_sleep_word
is_sleep_word(phrase, txt, t) ==
    LET sw == lower(phrase)
    IN  IF txt = <<>> \/ sw = <<>>
        THEN FALSE
        ELSE score_reaches(partial_ratio(sw, re_sub(lower(strip(txt)))), t)

\* The inputs of the matcher: short strings over the alphabet, and the
\* phrase "good night" with two transcripts.
RECURSIVE Strings(_)
Strings(n) ==
    IF n = 0
    THEN {<<>>}
    ELSE Strings(n - 1) \cup
         {Append(w, c) : <<w, c>> \in {x \in Strings(n - 1) : Len(x) = n - 1} \X Alphabet}

SleepWords == {<<>>, <<"a", "b">>, <<"A", " ", "b">>}
Thresholds == {50, 80, 85, 100}
GoodNight == <<"G", "o", "o", "d", " ", "N", "i", "g", "h", "t">>
GoodNightBang == <<"g", "o", "o", "d", " ", "n", "i", "g", "h", "t", "!", "!">>
GoodMorning == <<"g", "o", "o", "d", " ", "m", "o", "r", "n", "i", "n", "g">>

\* ------------------------------------------------------------ initial state
\* ConversationSession.__init__ (and the locals of run()); the remote has
\* created no response yet.
SessionFields(at) ==
    /\ pc = at
    /\ websocket = "none"
    /\ response_chunks = <<>>
    /\ audio_queue = <<>>
    /\ is_active = TRUE
    /\ is_greeting = TRUE
    /\ is_terminating = FALSE
    /\ transcript_log = FALSE
    /\ upload_task = "none"
    /\ poll_tasks = 0
    /\ exit_cause = "none"
    /\ pending = <<>>
    /\ cur_deltas = 0
    /\ cur_interrupted = FALSE
    /\ last_done = "none"
    /\ captured = 0
    /\ sent = <<>>
    /\ memory = "loaded"
    /\ scenario = "start"
    /\ faithful = TRUE

\* A new ConversationSession object: every field as __init__ sets it.
NewSession(at) ==
    /\ pc' = at
    /\ websocket' = "none"
    /\ response_chunks' = <<>>
    /\ audio_queue' = <<>>
    /\ is_active' = TRUE
    /\ is_greeting' = TRUE
    /\ is_terminating' = FALSE
    /\ transcript_log' = FALSE
    /\ upload_task' = "none"
    /\ poll_tasks' = 0
    /\ exit_cause' = "none"
    /\ pending' = <<>>
    /\ cur_deltas' = 0
    /\ cur_interrupted' = FALSE
    /\ last_done' = "none"
    /\ captured' = 0
    /\ sent' = <<>>
    /\ memory' = "loaded"
    /\ scenario' = "start"
    /\ faithful' = TRUE

InitProgram ==
    /\ main_pc = "idle"
    /\ main_exit = "none"
    /\ AUDIO = AudioInit
    /\ SessionFields("none")
    /\ wake_queue = <<>>
    /\ scorer = {}
    /\ wake_captured = 0
    /\ listen_from = 0
    /\ prediction = NoPrediction
    /\ wake_word = NoWakeWord
    /\ is_speaking = FALSE

\* ChocoPi.__init__: the active profile; no wake word was mapped yet.
ProfileInit ==
    /\ profile = [native_language |-> 1, learning_languages |-> <<2>>]
    /\ lang = NoLanguage

\* No capture callback ran yet; the gain is start_recording's default.
GainInit ==
    /\ input_gain = GainOne
    /\ indata = NoFrame
    /\ processed = NoFrame

\* _is_sleep_word was not called yet.
SleepInit ==
    /\ sleep_word = <<"a", "b">>
    /\ text = <<>>
    /\ sleep_word_threshold = 80
    /\ sleep_match = "none"

Init ==
    /\ InitProgram
    /\ ProfileInit
    /\ GainInit
    /\ SleepInit

\* ------------------------------------------------------------ DisplayManager
\* DisplayManager.set_speaking
set_speaking(now, speaking) == speaking

\* DisplayManager.set_active: going to sleep clears the speaking state.
set_active(now, active) == IF active THEN now ELSE FALSE

\* ------------------------------------------------------------ ChocoPi.run
\* The except/finally of ChocoPi.run: the loop is left, all audio is stopped.
LeaveMainLoop(a, why) ==
    /\ main_pc' = "done"
    /\ main_exit' = why
    /\ AUDIO' = stop_playing(stop_recording(a))

\* WakeWordDetector.listen up to the polling loop: the capture stream is
\* started; a device error is re-raised after the finally's stop_recording.
ListenStart(outcome) ==
    /\ UNCHANGED <<detector_vars, unit_vars, display_vars>>
    /\ main_pc = "idle"
    /\ HasFreshStream(AUDIO)
    /\ IF start_recording_raises(AUDIO, outcome)
       THEN LeaveMainLoop(listen_finally(start_recording(AUDIO, outcome)), "listen")
       ELSE /\ main_pc' = "listening"
            /\ AUDIO' = start_recording(AUDIO, outcome)
            /\ UNCHANGED main_exit
    /\ UNCHANGED session_vars

\* model.predict raises inside listen(): finally stop_recording, re-raise.
ScorerFails ==
    /\ UNCHANGED <<detector_vars, unit_vars, display_vars>>
    /\ main_pc = "listening"
    /\ LeaveMainLoop(listen_finally(AUDIO), "listen")
    /\ UNCHANGED session_vars

\* The mutant of WakeWordDetected: listen() returns the keyword with its
\* capture stream still open.
WakeWordDetected_keeps_capture(play_ok, construct_ok) ==
    /\ UNCHANGED <<detector_vars, unit_vars, display_vars>>
    /\ main_pc = "listening"
    /\ LET a == start_playing(AUDIO, "cue", play_ok)
       IN  IF construct_ok
           THEN /\ main_pc' = "session"
                /\ AUDIO' = a
                /\ NewSession("connect")
                /\ UNCHANGED main_exit
           ELSE /\ LeaveMainLoop(a, "construct")
                /\ UNCHANGED session_vars

\* A score above the threshold: listen() stops capture and returns; run()
\* plays the awake cue and constructs the session (load_memory and the
\* profile lookups of __init__ may raise).
WakeWordDetected(play_ok, construct_ok) ==
    /\ UNCHANGED <<detector_vars, unit_vars, display_vars>>
    /\ main_pc = "listening"
    /\ LET a == start_playing(listen_finally(stop_recording(AUDIO)), "cue", play_ok)
       IN  IF construct_ok
           THEN /\ main_pc' = "session"
                /\ AUDIO' = a
                /\ NewSession("connect")
                /\ UNCHANGED main_exit
           ELSE /\ LeaveMainLoop(a, "construct")
                /\ UNCHANGED session_vars

\* SIGINT / SIGTERM: _signal_handler raises SystemExit while run() waits for a
\* wake word; listen()'s finally runs on the way out.
Signal ==
    /\ UNCHANGED <<detector_vars, unit_vars, display_vars>>
    /\ main_pc = "listening"
    /\ LeaveMainLoop(listen_finally(AUDIO), "signal")
    /\ UNCHANGED session_vars

\* session.run() returned: the bye cue, and back to the top of the loop.
SessionReturned(play_ok) ==
    /\ UNCHANGED <<detector_vars, unit_vars>>
    /\ is_speaking' = set_active(is_speaking, FALSE)
    /\ main_pc = "session"
    /\ pc = "returned"
    /\ main_pc' = "idle"
    /\ AUDIO' = start_playing(AUDIO, "cue", play_ok)
    /\ NewSession("none")
    /\ UNCHANGED main_exit

\* session.run() raised: `except Exception` of ChocoPi.run ends the loop.
SessionRaised ==
    /\ UNCHANGED <<detector_vars, unit_vars, display_vars>>
    /\ main_pc = "session"
    /\ pc = "raised"
    /\ LeaveMainLoop(AUDIO, "session")
    /\ NewSession("none")


\* ------------------------------------------------------------ the end-to-end script
\* scenario follows the events one session handles along the script
\*   connect, greeting done, a transcript that is not the sleep phrase, its
\*   response done, a transcript that is the sleep phrase, goodbye done
\* ("start", "greeted", "asked", "replied", "bye_asked", "bye_done"), each
\* response with audio deltas that AUDIO.start_playing accepted; any other
\* inbound event and any failure takes it to "off".
OffScript == scenario' = "off" /\ faithful' = TRUE

KeepScript == UNCHANGED <<scenario, faithful>>

\* The audio handed to start_playing at a response.done is the deltas of that
\* response, all of them and nothing else.
PlayedExactly ==
    /\ Len(response_chunks) = cur_deltas
    /\ \A i \in DOMAIN response_chunks : response_chunks[i] = "cur"

Script(from, to, exact) ==
    IF scenario = from
    THEN scenario' = to /\ faithful' = (faithful /\ exact)
    ELSE OffScript

\* ------------------------------------------------------------ ConversationSession.run
\* The body of `while self.is_active` is about to await websocket.recv().
Receiving == main_pc = "session" /\ pc = "recv" /\ is_active

\* The receive loop is left (break, or an exception caught by run()'s
\* `except Exception`): the finally block is entered.
\* What the remote sends from here on is never read.
LeaveLoop(cause) ==
    /\ pc' = "fin_mem"
    /\ exit_cause' = cause
    /\ pending' = <<>>
    /\ cur_deltas' = 0
    /\ cur_interrupted' = FALSE

\* connect(): open the websocket, send the session config and the greeting's
\* response-create.  "no_socket": OPENAI_API_KEY unset or websockets.connect
\* raises; "send_fails": a send raises after the websocket was opened.
Connect(outcome) ==
    /\ main_pc = "session"
    /\ pc = "connect"
    /\ CASE outcome = "ok" ->
              /\ websocket' = "open"
              /\ pending' = <<"greeting">>
              /\ pc' = "recv"
              /\ UNCHANGED <<exit_cause, cur_deltas, cur_interrupted>>
         [] outcome = "no_socket" ->
              /\ LeaveLoop("exception")
              /\ UNCHANGED websocket
         [] outcome = "send_fails" ->
              /\ websocket' = "open"
              /\ LeaveLoop("exception")
    /\ IF outcome = "ok" THEN KeepScript ELSE OffScript
    /\ UNCHANGED <<main_vars, detector_vars, unit_vars, display_vars, memory,
                   AUDIO, response_chunks, audio_queue, is_active,
                   is_greeting, is_terminating, transcript_log, upload_task,
                   poll_tasks, last_done, captured, sent>>

\* _on_output_audio_delta: a delta of the response the remote is synthesizing.
RecvAudioDelta ==
    /\ Receiving
    /\ pending # <<>>
    /\ cur_deltas < MaxDeltas
    /\ Len(response_chunks) < MaxChunks
    /\ response_chunks' = Append(response_chunks, "cur")
    /\ cur_deltas' = cur_deltas + 1
    /\ KeepScript
    /\ UNCHANGED <<main_vars, detector_vars, unit_vars, display_vars, memory,
                   AUDIO, pc, websocket, audio_queue, is_active,
                   is_greeting, is_terminating, transcript_log, upload_task,
                   poll_tasks, exit_cause, pending, cur_interrupted,
                   last_done, captured, sent>>

\* _on_speech_started
on_speech_started ==
    /\ AUDIO' = stop_playing(AUDIO)
    /\ UNCHANGED response_chunks

RecvSpeechStarted ==
    /\ Receiving
    /\ ~is_greeting
    /\ on_speech_started
    /\ cur_interrupted' = TRUE
    /\ OffScript
    /\ is_speaking' = set_speaking(is_speaking, FALSE)
    /\ UNCHANGED <<main_vars, detector_vars, unit_vars, memory,
                   pc, websocket, audio_queue, is_active, is_greeting,
                   is_terminating, transcript_log, upload_task, poll_tasks,
                   exit_cause, pending, cur_deltas, last_done, captured, sent>>

\* _on_speech_stopped: the "sent" cue.
RecvSpeechStopped(play_ok) ==
    /\ Receiving
    /\ ~is_greeting
    /\ AUDIO' = start_playing(AUDIO, "sent", play_ok)
    /\ IF start_playing_raises(AUDIO, "sent", play_ok)
       THEN LeaveLoop("exception")
       ELSE UNCHANGED <<pc, exit_cause, pending, cur_deltas, cur_interrupted>>
    /\ OffScript
    /\ UNCHANGED <<main_vars, detector_vars, unit_vars, display_vars, memory,
                   websocket, response_chunks, audio_queue,
                   is_active, is_greeting, is_terminating, transcript_log,
                   upload_task, poll_tasks, last_done, captured, sent>>

\* The mutant of build_response_instructions: is_terminating follows the last
\* transcript, so that a transcript without the sleep word clears it.
build_response_instructions_resets(sleep) ==
    /\ is_terminating' = sleep

\* _build_response_instructions: a transcript that matches the sleep word sets
\* is_terminating and selects the goodbye prompt.
build_response_instructions(sleep) ==
    /\ is_terminating' = (is_terminating \/ sleep)

ResponseKind(sleep) == IF sleep THEN "goodbye" ELSE "reply"

\* _on_transcription_completed: record the transcript, build the instructions,
\* send user message and response-create (_create_response); a failed send
\* raises out of the handler.
RecvTranscription(sleep, send_ok) ==
    /\ Receiving
    /\ ~is_greeting
    /\ Len(pending) < MaxPending
    /\ transcript_log' = TRUE
    /\ build_response_instructions(sleep)
    /\ IF send_ok
       THEN /\ pending' = Append(pending, ResponseKind(sleep))
            /\ UNCHANGED <<pc, exit_cause, cur_deltas, cur_interrupted>>
       ELSE LeaveLoop("exception")
    /\ IF ~send_ok THEN OffScript
       ELSE IF sleep THEN Script("replied", "bye_asked", TRUE)
       ELSE Script("greeted", "asked", TRUE)
    /\ UNCHANGED <<main_vars, detector_vars, unit_vars, display_vars, memory,
                   AUDIO, websocket, response_chunks, audio_queue,
                   is_active, is_greeting, upload_task, poll_tasks, last_done,
                   captured, sent>>


\* _on_response_done with _play_response up to its await: the buffered audio,
\* if any, is handed to AUDIO.start_playing; for greeting and goodbye the
\* handler awaits playback_completion, otherwise the poller becomes a task
\* of its own and the receive loop goes on.  The buffer itself is left as it
\* is: what stays in it now belongs to a response that is done ("old").
ResponseAudio == IF is_greeting THEN "greeting" ELSE "resp"

\* The mutant of AwaitsCompletion: every response's playback is awaited.
AwaitsCompletion_always == TRUE

\* _play_response: `if self.is_greeting or self.is_terminating` the handler
\* awaits playback_completion(), otherwise it creates it as a task.
AwaitsCompletion == is_greeting \/ is_terminating

RecvResponseDone(play_ok) ==
    /\ Receiving
    /\ pending # <<>>
    /\ (response_chunks # <<>> /\ ~AwaitsCompletion) => poll_tasks < MaxPolls
    /\ last_done' = Head(pending)
    /\ IF response_chunks # <<>> /\ start_playing_raises(AUDIO, ResponseAudio, play_ok)
       THEN /\ AUDIO' = start_playing(AUDIO, ResponseAudio, play_ok)
            /\ LeaveLoop("exception")
            /\ UNCHANGED poll_tasks
       ELSE /\ pending' = Tail(pending)
            /\ cur_deltas' = 0
            /\ cur_interrupted' = FALSE
            /\ UNCHANGED exit_cause
            /\ IF response_chunks # <<>>
               THEN /\ AUDIO' = start_playing(AUDIO, ResponseAudio, play_ok)
                    /\ IF AwaitsCompletion
                       THEN pc' = "await_play" /\ UNCHANGED poll_tasks
                       ELSE pc' = "recv" /\ poll_tasks' = poll_tasks + 1
               ELSE /\ pc' = IF is_greeting \/ is_terminating
                             THEN "played" ELSE "recv"
                    /\ UNCHANGED <<AUDIO, poll_tasks>>
    /\ response_chunks' = [i \in DOMAIN response_chunks |-> "old"]
    /\ IF play_ok /\ cur_deltas > 0
       THEN CASE Head(pending) = "greeting" -> Script("start", "greeted", PlayedExactly)
              [] Head(pending) = "reply" -> Script("asked", "replied", PlayedExactly)
              [] Head(pending) = "goodbye" -> Script("bye_asked", "bye_done", PlayedExactly)
       ELSE OffScript
    /\ is_speaking' = set_speaking(is_speaking, TRUE)
    /\ UNCHANGED <<main_vars, detector_vars, unit_vars, memory,
                   websocket, audio_queue, is_active,
                   is_greeting, is_terminating, transcript_log, upload_task,
                   captured, sent>>

\* The mutant of AwaitedPlaybackCompletion: the handler returns without
\* polling AUDIO.is_playing().
AwaitedPlaybackCompletion_no_wait ==
    /\ main_pc = "session"
    /\ pc = "await_play"
    /\ response_chunks' = <<>>
    /\ pc' = "played"
    /\ KeepScript
    /\ is_speaking' = set_speaking(is_speaking, FALSE)
    /\ UNCHANGED <<main_vars, detector_vars, unit_vars, memory,
                   AUDIO, websocket, audio_queue, is_active,
                   is_greeting, is_terminating, transcript_log, upload_task,
                   poll_tasks, exit_cause, pending, cur_deltas,
                   cur_interrupted, last_done, captured, sent>>

\* playback_completion awaited by _play_response: polls AUDIO.is_playing()
\* until it is false, then clears the buffer.
AwaitedPlaybackCompletion ==
    /\ main_pc = "session"
    /\ pc = "await_play"
    /\ ~is_playing(AUDIO)
    /\ response_chunks' = <<>>
    /\ pc' = "played"
    /\ KeepScript
    /\ is_speaking' = set_speaking(is_speaking, FALSE)
    /\ UNCHANGED <<main_vars, detector_vars, unit_vars, memory,
                   AUDIO, websocket, audio_queue, is_active,
                   is_greeting, is_terminating, transcript_log, upload_task,
                   poll_tasks, exit_cause, pending, cur_deltas,
                   cur_interrupted, last_done, captured, sent>>

\* The mutant of Greeted: is_greeting is left set, so that a later
\* response.done starts capture again.
Greeted_keeps_greeting(outcome) ==
    /\ main_pc = "session"
    /\ pc = "played"
    /\ is_greeting
    /\ HasFreshStream(AUDIO)
    /\ AUDIO' = start_recording(AUDIO, outcome)
    /\ IF start_recording_raises(AUDIO, outcome)
       THEN /\ LeaveLoop("exception")
            /\ UNCHANGED upload_task
       ELSE /\ pc' = "recv"
            /\ upload_task' = "running"
            /\ UNCHANGED <<exit_cause, pending, cur_deltas, cur_interrupted>>
    /\ IF outcome = "ok" THEN KeepScript ELSE OffScript
    /\ UNCHANGED <<main_vars, detector_vars, unit_vars, display_vars, memory,
                   websocket, response_chunks, audio_queue, is_active,
                   is_greeting, is_terminating, transcript_log, poll_tasks,
                   last_done, captured, sent>>

\* The mutant of Greeted: the upload consumer task is created before
\* _listen() is called, so it exists when start_recording raises.
Greeted_task_first(outcome) ==
    /\ main_pc = "session"
    /\ pc = "played"
    /\ is_greeting
    /\ HasFreshStream(AUDIO)
    /\ is_greeting' = FALSE
    /\ AUDIO' = start_recording(AUDIO, outcome)
    /\ upload_task' = "running"
    /\ IF start_recording_raises(AUDIO, outcome)
       THEN LeaveLoop("exception")
       ELSE /\ pc' = "recv"
            /\ UNCHANGED <<exit_cause, pending, cur_deltas, cur_interrupted>>
    /\ IF outcome = "ok" THEN KeepScript ELSE OffScript
    /\ UNCHANGED <<main_vars, detector_vars, unit_vars, display_vars, memory, websocket,
                   response_chunks, audio_queue, is_active, is_terminating,
                   transcript_log, poll_tasks, last_done, captured, sent>>

\* Result.GREETED back in run(): is_greeting is cleared, _listen() starts
\* capture and the upload consumer task is created.  When start_recording
\* raises, the exception is caught by run() before the task exists.
Greeted(outcome) ==
    /\ main_pc = "session"
    /\ pc = "played"
    /\ is_greeting
    /\ HasFreshStream(AUDIO)
    /\ is_greeting' = FALSE
    /\ AUDIO' = start_recording(AUDIO, outcome)
    /\ IF start_recording_raises(AUDIO, outcome)
       THEN /\ LeaveLoop("exception")
            /\ UNCHANGED upload_task
       ELSE /\ pc' = "recv"
            /\ upload_task' = "running"
            /\ UNCHANGED <<exit_cause, pending, cur_deltas, cur_interrupted>>
    /\ IF outcome = "ok" THEN KeepScript ELSE OffScript
    /\ UNCHANGED <<main_vars, detector_vars, unit_vars, display_vars, memory,
                   websocket, response_chunks, audio_queue, is_active,
                   is_terminating, transcript_log, poll_tasks, last_done, captured, sent>>

\* Result.GOODBYE: _on_response_done stops capture when is_terminating, run()
\* clears is_active and breaks.
Goodbye ==
    /\ main_pc = "session"
    /\ pc = "played"
    /\ ~is_greeting
    /\ is_terminating
    /\ AUDIO' = stop_recording(AUDIO)
    /\ is_active' = FALSE
    /\ LeaveLoop("goodbye")
    /\ KeepScript
    /\ UNCHANGED <<main_vars, detector_vars, unit_vars, display_vars, memory,
                   websocket, response_chunks, audio_queue, is_greeting,
                   is_terminating, transcript_log, upload_task, poll_tasks,
                   last_done, captured, sent>>

\* _on_error: a remote error event.
on_error ==
    /\ is_active' = FALSE
    /\ AUDIO' = stop_recording(AUDIO)

RecvError ==
    /\ Receiving
    /\ on_error
    /\ LeaveLoop("error")
    /\ OffScript
    /\ UNCHANGED <<main_vars, detector_vars, unit_vars, display_vars, memory,
                   websocket, response_chunks, audio_queue, is_greeting,
                   is_terminating, transcript_log, upload_task, poll_tasks,
                   last_done, captured, sent>>

\* asyncio.TimeoutError of wait_for(recv, timeout): the greeting timeout while
\* is_greeting, the conversation timeout otherwise.
RecvTimeout ==
    /\ Receiving
    /\ is_active' = FALSE
    /\ LeaveLoop("timeout")
    /\ OffScript
    /\ UNCHANGED <<main_vars, detector_vars, unit_vars, display_vars, memory,
                   AUDIO, websocket, response_chunks, audio_queue,
                   is_greeting, is_terminating, transcript_log, upload_task,
                   poll_tasks, last_done, captured, sent>>

\* websocket.recv() raises (the connection was closed or lost): caught by
\* `except Exception`.
RecvFails ==
    /\ Receiving
    /\ LeaveLoop("exception")
    /\ OffScript
    /\ UNCHANGED <<main_vars, detector_vars, unit_vars, display_vars, memory,
                   AUDIO, websocket, response_chunks, audio_queue,
                   is_active, is_greeting, is_terminating, transcript_log,
                   upload_task, poll_tasks, last_done, captured, sent>>

\* json.loads(message) raises on a payload that is not JSON, data.get on
\* JSON that is not an object, base64.b64decode on a bad delta: all inside the
\* try of run(), caught by `except Exception`, which leaves the loop.
RecvMalformed ==
    /\ Receiving
    /\ LeaveLoop("exception")
    /\ OffScript
    /\ UNCHANGED <<main_vars, detector_vars, unit_vars, display_vars, memory,
                   AUDIO, websocket, response_chunks, audio_queue,
                   is_active, is_greeting, is_terminating, transcript_log,
                   upload_task, poll_tasks, last_done, captured, sent>>

\* _handle_message with an event type that no case of the match names: no
\* handler runs, None is returned and the loop goes on.
RecvUnknownEvent ==
    /\ Receiving
    /\ OffScript
    /\ UNCHANGED <<main_vars, detector_vars, unit_vars, display_vars, memory, AUDIO, pc,
                   websocket, response_chunks, audio_queue, is_active,
                   is_greeting, is_terminating, transcript_log, upload_task,
                   poll_tasks, exit_cause, pending, cur_deltas,
                   cur_interrupted, last_done, captured, sent>>

\* What the summarization request can do: "ok" a summary that merges;
\* "request_error" urlopen raises or the API key is missing; "no_text" the
\* response holds no output text; "unparsable" the text is not JSON;
\* "raises" an exception leaves summarize_session (a summary that is JSON of
\* another shape makes merge_summary raise).
SummaryOutcomes == {"ok", "request_error", "no_text", "unparsable", "raises"}

\* The mutant of summarize_session: a failed request raises to the caller.
summarize_session_raises_on_failure(outcome) == outcome # "ok"

\* summarize_session leaves by an exception.
summarize_session_raises(outcome) == outcome = "raises"

\* summarize_session: the merged memory, or on a failed request, no text or
\* unparsable text a warning and the memory it was given.
summarize_session(mem, outcome) == IF outcome = "ok" THEN "summarized" ELSE mem

\* update_memory: the last user transcript is appended to the recent
\* requests and the summary rebuilt from them.
update_memory(mem) == "local"

\* The finally block of run() up to `await upload_task`: memory is summarized
\* (awaited in a thread when the transcript log is non-empty) or updated
\* locally, and saved; capture is stopped, the upload task is cancelled and
\* awaited.  Awaiting a task that ended with an exception re-raises it out of
\* run().
FinallyCleanup(outcome) ==
    /\ main_pc = "session"
    /\ pc = "fin_mem"
    /\ memory' = IF transcript_log /\ ~summarize_session_raises(outcome)
                 THEN summarize_session(memory, outcome)
                 ELSE update_memory(memory)
    /\ AUDIO' = stop_recording(AUDIO)
    /\ upload_task' = IF upload_task = "running" THEN "cancelled" ELSE upload_task
    /\ pc' = IF upload_task = "failed" THEN "raised"
             ELSE IF websocket = "none" THEN "returned" ELSE "fin_close"
    /\ KeepScript
    /\ UNCHANGED <<main_vars, detector_vars, unit_vars, display_vars,
                   websocket, response_chunks, audio_queue, is_active,
                   is_greeting, is_terminating, transcript_log, poll_tasks,
                   exit_cause, pending, cur_deltas, cur_interrupted,
                   last_done, captured, sent>>

\* `if self.websocket: await self.websocket.close()`, then run() returns.
FinallyClose ==
    /\ main_pc = "session"
    /\ pc = "fin_close"
    /\ websocket' = "closed"
    /\ pc' = "returned"
    /\ KeepScript
    /\ UNCHANGED <<main_vars, detector_vars, unit_vars, display_vars, memory,
                   AUDIO, response_chunks, audio_queue, is_active,
                   is_greeting, is_terminating, transcript_log, upload_task,
                   poll_tasks, exit_cause, pending, cur_deltas,
                   cur_interrupted, last_done, captured, sent>>

\* ------------------------------------------------------------ the other tasks
\* The main task is suspended at an await, so the event loop runs other tasks.
Suspended ==
    /\ main_pc = "session"
    /\ \/ pc \in {"connect", "recv", "await_play", "fin_close"}
       \/ pc = "fin_mem" /\ transcript_log

\* self.audio_queue = queue.Queue(): maxsize 0, a queue of any length.
audio_queue_maxsize == 0

\* queue.Queue.put_nowait raises queue.Full only when maxsize > 0 is reached.
Full(q) == audio_queue_maxsize > 0 /\ Len(q) >= audio_queue_maxsize

\* audio_callback of _listen, on the driver's thread: while is_active the
\* frame is queued with put_nowait; on queue.Full it is dropped.
put_nowait(q, frame) == IF Full(q) THEN q ELSE Append(q, frame)

CaptureFrame ==
    /\ Suspended
    /\ Capturing(AUDIO)
    /\ is_active
    /\ captured < MaxFrames
    /\ captured' = captured + 1
    /\ audio_queue' = put_nowait(audio_queue, captured + 1)
    /\ KeepScript
    /\ UNCHANGED <<main_vars, detector_vars, unit_vars, display_vars, memory,
                   AUDIO, pc, websocket, response_chunks, is_active,
                   is_greeting, is_terminating, transcript_log, upload_task,
                   poll_tasks, exit_cause, pending, cur_deltas,
                   cur_interrupted, last_done, sent>>

\* The mutant of UploadSend: the frame at the head of the queue is sent but
\* not taken out of the queue.
UploadSend_peeks(send_ok) ==
    /\ Suspended
    /\ upload_task = "running"
    /\ is_active
    /\ audio_queue # <<>>
    /\ sent' = IF send_ok THEN Append(sent, Head(audio_queue)) ELSE sent
    /\ upload_task' = IF send_ok THEN "running" ELSE "failed"
    /\ IF send_ok THEN KeepScript ELSE OffScript
    /\ UNCHANGED <<main_vars, detector_vars, unit_vars, display_vars, memory,
                   AUDIO, pc, websocket, response_chunks, audio_queue,
                   is_active, is_greeting, is_terminating, transcript_log,
                   poll_tasks, exit_cause, pending, cur_deltas, cur_interrupted,
                   last_done, captured>>

\* _send_audio, one iteration with a frame: get_nowait, then websocket.send;
\* a send that raises ends the task with that exception.
UploadSend(send_ok) ==
    /\ Suspended
    /\ upload_task = "running"
    /\ is_active
    /\ audio_queue # <<>>
    /\ audio_queue' = Tail(audio_queue)
    /\ sent' = IF send_ok THEN Append(sent, Head(audio_queue)) ELSE sent
    /\ upload_task' = IF send_ok THEN "running" ELSE "failed"
    /\ IF send_ok THEN KeepScript ELSE OffScript
    /\ UNCHANGED <<main_vars, detector_vars, unit_vars, display_vars, memory,
                   AUDIO, pc, websocket, response_chunks, is_active,
                   is_greeting, is_terminating, transcript_log, poll_tasks,
                   exit_cause, pending, cur_deltas, cur_interrupted,
                   last_done, captured>>

\* _send_audio: `while self.is_active` is found false, the task returns.
UploadExit ==
    /\ Suspended
    /\ upload_task = "running"
    /\ ~is_active
    /\ upload_task' = "finished"
    /\ KeepScript
    /\ UNCHANGED <<main_vars, detector_vars, unit_vars, display_vars, memory,
                   AUDIO, pc, websocket, response_chunks, audio_queue,
                   is_active, is_greeting, is_terminating, transcript_log,
                   poll_tasks, exit_cause, pending, cur_deltas,
                   cur_interrupted, last_done, captured, sent>>

\* playback_completion as a task (asyncio.create_task): once is_playing() is
\* false it clears self.response_chunks.
PollCompletion ==
    /\ Suspended
    /\ poll_tasks > 0
    /\ ~is_playing(AUDIO)
    /\ response_chunks' = <<>>
    /\ poll_tasks' = poll_tasks - 1
    /\ KeepScript
    /\ is_speaking' = set_speaking(is_speaking, FALSE)
    /\ UNCHANGED <<main_vars, detector_vars, unit_vars, memory,
                   AUDIO, pc, websocket, audio_queue, is_active,
                   is_greeting, is_terminating, transcript_log, upload_task,
                   exit_cause, pending, cur_deltas, cur_interrupted,
                   last_done, captured, sent>>

\* The playback self.play_obj refers to reaches its end.
PlaybackEnds ==
    /\ AUDIO.play_obj.active
    /\ AUDIO' = [AUDIO EXCEPT !.play_obj = EndedPlay]
    /\ UNCHANGED <<main_vars, detector_vars, unit_vars, display_vars, session_vars>>

\* The playbacks no longer referenced have all reached their end.
OrphanEnds ==
    /\ AUDIO.orphans
    /\ AUDIO' = [AUDIO EXCEPT !.orphans = FALSE]
    /\ UNCHANGED <<main_vars, detector_vars, unit_vars, display_vars, session_vars>>

\* ------------------------------------------------------------ specification
Next ==
    \/ \E o \in RecordingOutcomes : ListenStart(o)
    \/ ScorerFails
    \/ \E p, c \in BOOLEAN : WakeWordDetected(p, c)
    \/ Signal
    \/ \E p \in BOOLEAN : SessionReturned(p)
    \/ SessionRaised
    \/ \E o \in {"ok", "no_socket", "send_fails"} : Connect(o)
    \/ RecvAudioDelta
    \/ RecvSpeechStarted
    \/ \E p \in BOOLEAN : RecvSpeechStopped(p)
    \/ \E sl, ok \in BOOLEAN : RecvTranscription(sl, ok)
    \/ \E p \in BOOLEAN : RecvResponseDone(p)
    \/ AwaitedPlaybackCompletion
    \/ \E o \in RecordingOutcomes : Greeted(o)
    \/ Goodbye
    \/ RecvError
    \/ RecvTimeout
    \/ RecvMalformed
    \/ RecvFails
    \/ RecvUnknownEvent
    \/ \E o \in SummaryOutcomes : FinallyCleanup(o)
    \/ FinallyClose
    \/ CaptureFrame
    \/ \E ok \in BOOLEAN : UploadSend(ok)
    \/ UploadExit
    \/ PollCompletion
    \/ PlaybackEnds
    \/ OrphanEnds

Spec == Init /\ [][Next]_vars


\* ------------------------------------------------------------ AudioManager harness
\* Every sequence of calls of the AudioManager's methods, with a capture
\* callback that queues the frames it is handed.  The harness keeps in pc the
\* call it made last: the method's name, with "_idle" appended when the call
\* found nothing to stop, or "raised" when the call raised.
Called(op) ==
    /\ pc' = op
    /\ KeepScript
    /\ UNCHANGED <<main_vars, detector_vars, unit_vars, display_vars, memory,
                   websocket, response_chunks, audio_queue, is_active,
                   is_greeting, is_terminating, transcript_log, upload_task,
                   poll_tasks, exit_cause, pending, cur_deltas, cur_interrupted,
                   last_done, captured, sent>>

ApiStartRecording(outcome) ==
    /\ HasFreshStream(AUDIO)
    /\ AUDIO' = start_recording(AUDIO, outcome)
    /\ Called(IF start_recording_raises(AUDIO, outcome)
              THEN "raised" ELSE "start_recording")

ApiStopRecording ==
    /\ AUDIO' = stop_recording(AUDIO)
    /\ Called(IF stop_recording_raises(AUDIO) THEN "raised"
              ELSE IF AUDIO.input_stream = NoStream THEN "stop_recording_idle"
              ELSE "stop_recording")

ApiStartPlaying(kind, ok) ==
    /\ AUDIO' = start_playing(AUDIO, kind, ok)
    /\ Called(IF start_playing_raises(AUDIO, kind, ok) THEN "raised"
              ELSE IF ok THEN "start_playing" ELSE "start_playing_failed")

ApiStopPlaying ==
    /\ AUDIO' = stop_playing(AUDIO)
    /\ Called(IF is_playing(AUDIO) THEN "stop_playing" ELSE "stop_playing_idle")

\* gain_callback hands a frame of the open stream to the callback.
ApiFrame ==
    /\ Capturing(AUDIO)
    /\ captured < MaxFrames
    /\ captured' = captured + 1
    /\ audio_queue' = Append(audio_queue, captured + 1)
    /\ KeepScript
    /\ UNCHANGED <<main_vars, detector_vars, unit_vars, display_vars, memory,
                   AUDIO, pc, websocket, response_chunks, is_active,
                   is_greeting, is_terminating, transcript_log, upload_task,
                   poll_tasks, exit_cause, pending, cur_deltas, cur_interrupted,
                   last_done, sent>>

NextAudio ==
    \/ \E o \in RecordingOutcomes : ApiStartRecording(o)
    \/ ApiStopRecording
    \/ \E k \in PlayKinds, ok \in BOOLEAN : ApiStartPlaying(k, ok)
    \/ ApiStopPlaying
    \/ ApiFrame
    \/ PlaybackEnds
    \/ OrphanEnds

SpecAudio == Init /\ [][NextAudio]_vars

\* ------------------------------------------------------------ WakeWordDetector harness
\* listen() called again and again on one detector, as ChocoPi.run's loop
\* calls it.  The harness keeps in pc how the last call ended: "keyword"
\* (returned), "raised" (a device or scorer failure) or "cancelled".
wake_rest == <<unit_vars, display_vars, main_exit, websocket, response_chunks, audio_queue, is_active,
               is_greeting, is_terminating, transcript_log, upload_task,
               poll_tasks, exit_cause, pending, cur_deltas, cur_interrupted,
               last_done, captured, sent, memory, scenario, faithful>>

\* listen() is left with the audio manager as a.
ListenExit(a, how) ==
    /\ main_pc' = "idle"
    /\ pc' = how
    /\ AUDIO' = a

\* listen() up to its polling loop: scorer reset, new queue, capture started.
WakeListen(outcome) ==
    /\ main_pc = "idle"
    /\ HasFreshStream(AUDIO)
    /\ scorer' = model_reset(scorer)
    /\ wake_queue' = new_audio_queue(wake_queue)
    /\ listen_from' = wake_captured
    /\ prediction' = NoPrediction
    /\ wake_word' = NoWakeWord
    /\ IF start_recording_raises(AUDIO, outcome)
       THEN ListenExit(listen_finally(start_recording(AUDIO, outcome)), "raised")
       ELSE /\ main_pc' = "listening"
            /\ pc' = "listening"
            /\ AUDIO' = start_recording(AUDIO, outcome)
    /\ UNCHANGED <<wake_captured, wake_rest>>

\* The driver hands a frame of the open stream to audio_callback.
WakeFrame ==
    /\ main_pc = "listening"
    /\ Capturing(AUDIO)
    /\ wake_captured < MaxWakeFrames
    /\ wake_captured' = wake_captured + 1
    /\ wake_queue' = audio_callback(wake_queue, wake_captured + 1)
    /\ UNCHANGED <<main_pc, pc, AUDIO, scorer, listen_from, prediction,
                   wake_word, wake_rest>>

\* One iteration of the polling loop with a frame: get, predict, compare the
\* best score with the threshold.  Above it: stop_recording and return the
\* wake word; predict raises: the exception is logged and re-raised.
WakePredict(result) ==
    /\ main_pc = "listening"
    /\ wake_queue # <<>>
    /\ wake_queue' = Tail(wake_queue)
    /\ scorer' = predict(scorer, Head(wake_queue))
    /\ IF result.raises
       THEN /\ ListenExit(listen_finally(AUDIO), "raised")
            /\ UNCHANGED <<prediction, wake_word>>
       ELSE /\ prediction' = result.scores
            /\ IF activates(result.scores[best(result.scores)])
               THEN /\ ListenExit(listen_finally(stop_recording(AUDIO)), "keyword")
                    /\ wake_word' = best(result.scores)
               ELSE UNCHANGED <<main_pc, pc, AUDIO, wake_word>>
    /\ UNCHANGED <<wake_captured, listen_from, wake_rest>>

\* The task is cancelled, or the signal handler raises SystemExit, while
\* listen() polls: neither is an Exception, the finally clause runs.
WakeCancelled ==
    /\ main_pc = "listening"
    /\ ListenExit(listen_finally(AUDIO), "cancelled")
    /\ UNCHANGED <<detector_vars, wake_rest>>

NextWake ==
    \/ \E o \in RecordingOutcomes : WakeListen(o)
    \/ WakeFrame
    \/ \E r \in PredictOutcomes : WakePredict(r)
    \/ WakeCancelled

SpecWake == Init /\ [][NextWake]_vars

\* ------------------------------------------------------------ gain_callback harness
\* start_recording was called with dtype 'int16', as both of its callers
\* do, and with any gain; the driver hands frames to gain_callback.
gain_rest == <<main_vars, AUDIO, session_vars, detector_vars, display_vars,
               profile_vars, sleep_vars>>

InitGain ==
    /\ InitProgram
    /\ ProfileInit
    /\ input_gain \in Gains
    /\ indata = NoFrame
    /\ processed = NoFrame
    /\ SleepInit

\* The driver calls gain_callback with a frame.
GainFrame(frame) ==
    /\ indata = NoFrame
    /\ indata' = frame
    /\ UNCHANGED <<input_gain, processed, gain_rest>>

\* gain_callback hands the processed frame to the wrapped callback.
GainCallback ==
    /\ indata # NoFrame
    /\ processed = NoFrame
    /\ processed' = gain_callback(indata, input_gain, "int16")
    /\ UNCHANGED <<input_gain, indata, gain_rest>>

\* The wrapped callback returned: the next frame.
GainReturn ==
    /\ processed # NoFrame
    /\ indata' = NoFrame
    /\ processed' = NoFrame
    /\ UNCHANGED <<input_gain, gain_rest>>

NextGain ==
    \/ \E f \in Frames : GainFrame(f)
    \/ GainCallback
    \/ GainReturn

SpecGain == InitGain /\ [][NextGain]_vars

\* ------------------------------------------------------------ _is_sleep_word harness
sleep_rest == <<main_vars, AUDIO, session_vars, detector_vars, display_vars,
                profile_vars, gain_vars>>

InitSleep ==
    /\ InitProgram
    /\ ProfileInit
    /\ GainInit
    /\ \/ sleep_word \in SleepWords /\ text \in Strings(MaxTextLen)
       \/ sleep_word = GoodNight /\ text \in {GoodNightBang, GoodMorning}
    /\ sleep_word_threshold \in Thresholds
    /\ sleep_match = "none"

\* _on_transcription_completed's transcript goes through _is_sleep_word.
IsSleepWord ==
    /\ sleep_match = "none"
    /\ sleep_match' = IF is_sleep_word(sleep_word, text, sleep_word_threshold)
                      THEN "yes" ELSE "no"
    /\ UNCHANGED <<sleep_word, text, sleep_word_threshold, sleep_rest>>

NextSleep == IsSleepWord

SpecSleep == InitSleep /\ [][NextSleep]_vars

\* ------------------------------------------------------------ ChocoPi.run harness
\* The top of ChocoPi.run's loop for every active profile: main_pc is "idle"
\* before listen(), "detected" when it returned, "mapped" after
\* _wake_word_language, "session" while the session runs and "done" when the
\* loop was left.
lang_rest == <<AUDIO, session_vars, display_vars, gain_vars, sleep_vars, wake_queue, scorer, wake_captured,
               listen_from, prediction>>

InitLanguage ==
    /\ InitProgram
    /\ profile \in Profiles
    /\ lang = NoLanguage
    /\ GainInit
    /\ SleepInit

\* wake_word = await self.wake_word_detector.listen(): any loaded model's id.
LangListen(k) ==
    /\ main_pc = "idle"
    /\ main_pc' = "detected"
    /\ wake_word' = k
    /\ UNCHANGED <<main_exit, profile, lang, lang_rest>>

\* lang = self._wake_word_language(wake_word)
LangMap ==
    /\ main_pc = "detected"
    /\ main_pc' = "mapped"
    /\ lang' = wake_word_language(profile, wake_word)
    /\ UNCHANGED <<main_exit, profile, wake_word, lang_rest>>

\* session = ConversationSession(lang, self.profile, ...): a KeyError of
\* __init__ is caught by `except Exception` of run() and ends the loop.
LangConstruct ==
    /\ main_pc = "mapped"
    /\ IF session_init_raises(profile, lang)
       THEN main_pc' = "done" /\ main_exit' = "construct"
       ELSE main_pc' = "session" /\ UNCHANGED main_exit
    /\ UNCHANGED <<profile, lang, wake_word, lang_rest>>

\* await session.run() returned: the next cycle of the loop.
LangSessionReturned ==
    /\ main_pc = "session"
    /\ main_pc' = "idle"
    /\ UNCHANGED <<main_exit, profile, lang, wake_word, lang_rest>>

NextLanguage ==
    \/ \E k \in Keywords : LangListen(k)
    \/ LangMap
    \/ LangConstruct
    \/ LangSessionReturned

SpecLanguage == InitLanguage /\ [][NextLanguage]_vars

\* ------------------------------------------------------------ claims
\* run() of the session has exited, by return or by an exception.
RunExited == main_pc = "session" /\ pc \in {"returned", "raised"}

\* A playback the session started (response audio or the "sent" cue) sounds.
SessionPlayback ==
    AUDIO.play_obj.active /\ AUDIO.play_obj.kind \in {"greeting", "resp", "sent"}

\* Response audio handed to start_playing by _play_response still sounds.
ResponsePlayback == AUDIO.play_obj.active /\ AUDIO.play_obj.kind = "resp"

\* The goodbye response-create has been sent and its response.done is due.
GoodbyeRequested == \E i \in DOMAIN pending : pending[i] = "goodbye"

\* C1: no failure inside one conversation cycle (session construction,
\* connect, receive/handle, the upload consumer's send, run()'s own cleanup)
\* ends the wake -> converse loop of ChocoPi.run; only a shutdown signal does.
C1_SessionFailureKeepsLoop ==
    main_pc = "done" => main_exit \notin {"construct", "session"}

\* C2: whenever run() exits, the capture stream has been stopped, the upload
\* consumer task is cancelled or finished, and the websocket that was opened
\* has been closed.
C2_CleanupOnEveryExit ==
    RunExited =>
        /\ AUDIO.input_stream = NoStream
        /\ AUDIO.open_streams = {}
        /\ upload_task # "running"
        /\ websocket # "open"

\* C3: after any sequence of start_recording / stop_recording calls at most
\* one input stream is open, and it is the one self.input_stream refers to:
\* start_recording closes the previous stream before it opens the new one.
C3_AtMostOneOpenStream ==
    /\ Cardinality(AUDIO.open_streams) <= 1
    /\ AUDIO.open_streams \subseteq {AUDIO.input_stream}

\* C3 witness: start_recording has replaced a stream that was open (handle 2
\* is only handed out while handle 1 is still referenced) and frames of the
\* new stream have been delivered.
C3_Witness ==
    /\ AUDIO.input_stream = 2
    /\ AUDIO.open_streams = {2}
    /\ captured > 0

\* C4: handling speech_started while the response buffer is non-empty leaves
\* the buffer empty and the audio manager as one stop_playing() call leaves it.
C4_SpeechStartedClearsBuffer ==
    [][(RecvSpeechStarted /\ response_chunks # <<>>) =>
          (response_chunks' = <<>> /\ AUDIO' = stop_playing(AUDIO))]_vars

\* C5: at every response.done the audio handed to start_playing consists only
\* of the deltas of that response: no chunk of an earlier response is in it.
C5_PlayedFromFreshBuffer ==
    [][(\E p \in BOOLEAN : RecvResponseDone(p)) =>
          (\A i \in DOMAIN response_chunks : response_chunks[i] = "cur")]_vars

\* C6: a delta appended for the response being synthesized is never removed
\* by the completion of an earlier playback: with no speech_started since the
\* previous response.done, every delta of the response is in the buffer that
\* is played at its response.done.
C6_DeltasSurviveEarlierPlayback ==
    [][((\E p \in BOOLEAN : RecvResponseDone(p)) /\ ~cur_interrupted) =>
          (Cardinality({i \in DOMAIN response_chunks : response_chunks[i] = "cur"})
              = cur_deltas)]_vars

\* C7: the session is closed with Result.GOODBYE only by the response.done of
\* the goodbye response, after its audio has played to the end; the
\* response.done of a response requested earlier does not close it.
C7_ClosedByGoodbyeResponseOnly ==
    exit_cause = "goodbye" => (last_done = "goodbye" /\ ~ResponsePlayback)

\* C8: once the sleep phrase has matched, the goodbye response-create has been
\* sent, and until the goodbye response's response.done has been handled the
\* session stays open: is_active is true and capture is open (unless an
\* error, a timeout or an exception ended the session).
C8_OpenUntilGoodbyeDone ==
    (main_pc = "session" /\ is_terminating /\ last_done # "goodbye"
       /\ exit_cause \notin {"error", "timeout", "exception"})
    => (is_active /\ Capturing(AUDIO) /\ GoodbyeRequested)

\* C9: after a remote error event, by the time run() has exited capture is
\* stopped, no playback started by the session is still sounding and the
\* connection is closed.
C9_ErrorStopsEverything ==
    (RunExited /\ exit_cause = "error") =>
        /\ AUDIO.input_stream = NoStream
        /\ ~SessionPlayback
        /\ websocket = "closed"

\* C10: when the receive timeout expires the session becomes inactive, the
\* connection is closed and run() returns normally.
C10_TimeoutReturnsNormally ==
    (RunExited /\ exit_cause = "timeout") =>
        /\ pc = "returned"
        /\ ~is_active
        /\ websocket = "closed"

\* C11: connect and the first response.done take the session from GREETING
\* (is_greeting) to LISTENING (capture open, upload consumer created), and in
\* one session the capture stream is started exactly once: a step of the
\* session starts a stream only at that transition, out of is_greeting, and
\* is_greeting is never set again.
C11_CaptureStartedOnce ==
    [][(main_pc = "session" /\ main_pc' = "session") =>
          /\ (AUDIO'.input_stream # AUDIO.input_stream /\ AUDIO'.input_stream # NoStream)
                => (is_greeting /\ ~is_greeting' /\ last_done = "greeting"
                      /\ upload_task = "none")
          /\ ~is_greeting => ~is_greeting'
          /\ (is_greeting /\ ~is_greeting' /\ exit_cause' = "none")
                => (Capturing(AUDIO') /\ upload_task' = "running")]_vars

\* C11 witness: a session in LISTENING that has handled the response.done of
\* a later reply, with frames of its one capture stream delivered.
C11_Witness ==
    /\ main_pc = "session"
    /\ ~is_greeting
    /\ last_done = "reply"
    /\ pc = "recv"
    /\ Capturing(AUDIO)
    /\ captured > 0

\* The greeting's audio, handed to start_playing at its response.done, sounds.
GreetingPlaying ==
    main_pc = "session" /\ AUDIO.play_obj.active /\ AUDIO.play_obj.kind = "greeting"

\* C12: while the greeting is still playing no capture stream is open, no
\* upload consumer exists and no audio-append message has been sent: capture
\* and the consumer start only after playback_completion has been awaited.
C12_GreetingPlayedBeforeCapture ==
    (main_pc = "session" /\ (is_greeting \/ GreetingPlaying)) =>
        /\ ~Capturing(AUDIO)
        /\ AUDIO.open_streams = {}
        /\ upload_task = "none"
        /\ sent = <<>>

\* C12 witness: the greeting's response.done has been handled, its audio is
\* sounding and run() waits in playback_completion.
C12_Witness ==
    /\ GreetingPlaying
    /\ pc = "await_play"
    /\ is_greeting

\* C13: the audio-append messages sent are a subsequence of the frames the
\* capture callback delivered, in capture order: every frame sent was
\* captured, and frame numbers strictly increase along the sequence sent (no
\* frame twice, no two frames swapped).
C13_UploadInCaptureOrder ==
    /\ \A i \in DOMAIN sent : sent[i] \in 1..captured
    /\ \A i, j \in DOMAIN sent : i < j => sent[i] < sent[j]

\* C13 witness: two frames were queued together and both have been sent,
\* while the capture stream is still open.
C13_Witness ==
    /\ Len(sent) >= 2
    /\ Capturing(AUDIO)
    /\ upload_task = "running"

\* C14: the upload queue is bounded: it has a capacity (a maxsize above 0)
\* and the frames it holds never exceed that capacity.
C14_UploadQueueBounded ==
    Len(audio_queue) >= 1 =>
        /\ audio_queue_maxsize > 0
        /\ Len(audio_queue) <= audio_queue_maxsize

\* C15: every frame retained in the upload queue is eventually sent: while
\* the session is open (the receive loop has not been left) a non-empty
\* queue has a running consumer that will send its frames; a frame without
\* one stays in the queue until the session ends and is discarded unsent.
C15_RetainedFramesAreSent ==
    (main_pc = "session" /\ is_active /\ exit_cause = "none" /\ audio_queue # <<>>)
        => upload_task = "running"

\* C16: once the receive loop of run() has been left (goodbye, error,
\* timeout or exception) the upload consumer sends no audio-append message.
C16_NoSendAfterStop ==
    [][UploadSend(TRUE) => exit_cause = "none"]_vars

\* C17: stop_playing() interrupts every active playback: after the call no
\* playback started by an earlier start_playing is sounding, neither the one
\* self.play_obj refers to nor one started before it and replaced.
C17_StopPlayingSilencesAll ==
    [][ApiStopPlaying => (~AUDIO'.play_obj.active /\ ~AUDIO'.orphans)]_vars

C19_StopRecordingIdempotent ==
    [][(ApiStopRecording /\ ~StaleStream(AUDIO)) =>
          /\ pc' # "raised"
          /\ AUDIO.input_stream = NoStream => AUDIO' = AUDIO
          /\ AUDIO'.input_stream = NoStream
          /\ AUDIO'.open_streams = AUDIO.open_streams \ {AUDIO.input_stream}
          /\ ~stop_recording_raises(AUDIO')
          /\ stop_recording(AUDIO') = AUDIO']_vars

\* C19 witness: stop_recording() was called with no stream, after frames of
\* an earlier capture had been delivered.
C19_Witness ==
    /\ pc = "stop_recording_idle"
    /\ captured > 0
    /\ AUDIO.input_stream = NoStream
    /\ AUDIO.open_streams = {}

\* C20: a playback failure inside start_playing (for the "sent" cue or for
\* response audio) does not abort the caller: the handler ends normally, the
\* receive loop is not left, the session's flags and the audio manager are as
\* they were, and a later playback request is accepted and plays.
C20_PlaybackFailureNotFatal ==
    [][(\/ RecvSpeechStopped(FALSE)
        \/ (RecvResponseDone(FALSE) /\ response_chunks # <<>>)) =>
          /\ AUDIO' = AUDIO
          /\ exit_cause' = "none"
          /\ pc' \in {"recv", "await_play"}
          /\ is_active'
          /\ is_greeting' = is_greeting
          /\ is_terminating' = is_terminating
          /\ is_playing(start_playing(AUDIO', "resp", TRUE))]_vars

\* C20 witness: the playback of a reply failed at its response.done (nothing
\* plays although the buffer was dispatched and no speech_started came) and
\* the session is receiving as before.
C20_Witness ==
    /\ Receiving
    /\ last_done = "reply"
    /\ ~cur_interrupted
    /\ poll_tasks > 0
    /\ response_chunks # <<>>
    /\ AUDIO.play_obj = NoPlay

\* C21: WakeWordDetector.listen() closes the capture stream it opened on
\* every exit of the call: when it returns the keyword, when the device or
\* the scorer fails, and when it is cancelled, no input stream is left open
\* and AUDIO refers to none.
C21_ListenClosesCapture ==
    [][(main_pc' = "idle" /\ pc' \in {"keyword", "raised", "cancelled"}) =>
          (AUDIO'.open_streams = {} /\ AUDIO'.input_stream = NoStream)]_vars

\* C21 witness: listen() ended with a scorer failure after frames of its
\* open stream had been scored.
C21_Witness ==
    /\ main_pc = "idle"
    /\ pc = "raised"
    /\ scorer # {}
    /\ AUDIO.open_streams = {}

\* C22: a device or scorer failure raised by listen() does not end the loop
\* of ChocoPi.run: the loop calls listen() again on its next cycle.
C22_ListenFailureRetried ==
    main_pc = "done" => main_exit # "listen"

\* C23: each call of listen() starts from a clean detection window: the call
\* begins with the scorer reset and an empty queue, and every frame passed to
\* predict(), like every frame in the scorer's buffers, was captured during
\* this call.
C23_CleanDetectionWindow ==
    [][/\ (\E o \in RecordingOutcomes : WakeListen(o)) =>
             (scorer' = {} /\ wake_queue' = <<>>)
       /\ (main_pc = "listening" /\ scorer' # scorer) =>
             /\ Head(wake_queue) > listen_from
             /\ \A f \in scorer' : f > listen_from]_vars

\* C23 witness: a later call of listen(), begun after frames of an earlier
\* call were captured, has scored a frame and has another one queued.
C23_Witness ==
    /\ main_pc = "listening"
    /\ listen_from > 0
    /\ scorer # {}
    /\ wake_queue # <<>>

\* C24 as stated: the wake-word queue never holds more than queue_maxsize
\* frames, the callback never raises, and a frame that finds the queue full
\* is admitted in place of the oldest queued frame.
C24_DropOldestOnOverflow ==
    [][WakeFrame =>
          /\ Len(wake_queue') <= queue_maxsize
          /\ pc' = pc
          /\ main_pc' = main_pc
          /\ WakeFull(wake_queue) =>
                wake_queue' = Append(Tail(wake_queue), wake_captured + 1)]_vars

\* C24 amended: the wake-word queue never holds more than queue_maxsize
\* frames, the callback never raises, and a frame that finds the queue full
\* is itself dropped while the queued frames stay as they are; a frame that
\* finds room is appended.
C24_DropNewestOnOverflow ==
    [][WakeFrame =>
          /\ Len(wake_queue') <= queue_maxsize
          /\ pc' = pc
          /\ main_pc' = main_pc
          /\ WakeFull(wake_queue) => wake_queue' = wake_queue
          /\ ~WakeFull(wake_queue) =>
                wake_queue' = Append(wake_queue, wake_captured + 1)]_vars

\* C24 witness: the queue is full and the frame captured last is not in it:
\* it was dropped by the callback.
C24_Witness ==
    /\ main_pc = "listening"
    /\ Len(wake_queue) = queue_maxsize
    /\ wake_captured > wake_queue[Len(wake_queue)]

\* The receive loop of run() reads an inbound message and handles it.
HandlesEvent ==
    \/ RecvAudioDelta
    \/ RecvSpeechStarted
    \/ \E p \in BOOLEAN : RecvSpeechStopped(p)
    \/ \E sl, ok \in BOOLEAN : RecvTranscription(sl, ok)
    \/ \E p \in BOOLEAN : RecvResponseDone(p)
    \/ RecvError
    \/ RecvMalformed
    \/ RecvUnknownEvent

\* C25: within one session the state only moves forward along CONNECTING ->
\* GREETING -> LISTENING -> TERMINATING -> CLOSED: is_greeting, once cleared,
\* stays cleared; is_terminating, once set, stays set (and is only set after
\* the greeting); is_active, once cleared, stays cleared; the connection is
\* not opened again; and once the receive loop has been left (CLOSED) no
\* inbound event is handled and the loop is not entered again.
C25_StateOnlyMovesForward ==
    [][(main_pc = "session" /\ main_pc' = "session") =>
          /\ ~is_greeting => ~is_greeting'
          /\ is_terminating => is_terminating'
          /\ is_terminating' => ~is_greeting'
          /\ ~is_active => ~is_active'
          /\ websocket # "none" => websocket' # "none"
          /\ websocket = "closed" => websocket' = "closed"
          /\ exit_cause # "none" =>
                /\ ~HandlesEvent
                /\ exit_cause' = exit_cause
                /\ pc' \in {"fin_mem", "fin_close", "returned", "raised"}]_vars

\* C25 witness: a session that went through every state: greeted, listening,
\* terminating, closed by the goodbye, run() returned.
C25_Witness ==
    /\ main_pc = "session"
    /\ pc = "returned"
    /\ exit_cause = "goodbye"
    /\ ~is_greeting
    /\ is_terminating
    /\ ~is_active
    /\ websocket = "closed"

\* C26: an inbound message that cannot be decoded, or whose event type is
\* none of the handled kinds, is ignored: the receive loop goes on, and the
\* buffer, the flags, the audio manager and the connection are as before.
C26_MalformedMessageIgnored ==
    [][(RecvMalformed \/ RecvUnknownEvent) =>
          /\ pc' = "recv"
          /\ exit_cause' = "none"
          /\ UNCHANGED <<response_chunks, is_active, is_greeting, is_terminating,
                         AUDIO, websocket>>]_vars

\* C27: once a send of the upload consumer has failed, the session does not
\* go on handling inbound events with a dead consumer: the next thing the
\* receive loop does is leave, because of that failure.
C27_UploadFailureAbortsSession ==
    [][(upload_task = "failed" /\ HandlesEvent) => exit_cause' = "exception"]_vars

\* C28: when the summarization request errors, returns no text or returns
\* text that cannot be parsed, the memory that is saved is the local
\* update_memory update of the session's memory, and cleanup goes on: capture
\* is stopped and the upload consumer no longer runs.
C28_SummaryFailureFallsBack ==
    [][(transcript_log /\
        \E o \in {"request_error", "no_text", "unparsable"} : FinallyCleanup(o)) =>
          /\ memory' = update_memory(memory)
          /\ AUDIO' = stop_recording(AUDIO)
          /\ upload_task' # "running"]_vars

\* C29: each cycle of ChocoPi.run keeps the order: a session starts only when
\* listen() has returned a keyword, with the wake-word capture closed and the
\* awake cue requested, and it starts as a new session that has opened no
\* capture; the loop goes on after a session only when its run() has
\* returned, with the bye cue requested, and then calls listen() again; from
\* listening the loop goes nowhere but into a session (or ends).
C29_CycleOrder ==
    [][/\ (main_pc # "session" /\ main_pc' = "session") =>
             /\ main_pc = "listening"
             /\ AUDIO'.open_streams = {}
             /\ AUDIO'.input_stream = NoStream
             /\ \E p \in BOOLEAN :
                    AUDIO' = start_playing(stop_recording(AUDIO), "cue", p)
             /\ pc' = "connect"
             /\ upload_task' = "none"
       /\ (main_pc = "session" /\ main_pc' # "session") =>
             \/ main_pc' = "done"
             \/ /\ main_pc' = "idle"
                /\ pc = "returned"
                /\ \E p \in BOOLEAN : AUDIO' = start_playing(AUDIO, "cue", p)
       /\ (main_pc = "idle" /\ main_pc' # "idle") => main_pc' \in {"listening", "done"}
       /\ (main_pc = "listening" /\ main_pc' # "listening") =>
             main_pc' \in {"session", "done"}]_vars

\* C29 witness: a later cycle: listen() is capturing again while the bye cue
\* of the session before still sounds.
C29_Witness ==
    /\ main_pc = "listening"
    /\ Capturing(AUDIO)
    /\ AUDIO.play_obj = [kind |-> "cue", active |-> TRUE]

\* C30: a session that handled exactly the events of the end-to-end script
\* (connect, greeting done, a transcript without the sleep phrase, its
\* response done, the sleep phrase, goodbye done) has played the greeting,
\* the reply and the goodbye, each from exactly its own audio; it leaves the
\* receive loop by the goodbye only, and when run() has exited it has
\* returned, closed by the goodbye, with capture stopped.
C30_EndToEndScenario ==
    (main_pc = "session" /\ scenario = "bye_done") =>
        /\ faithful
        /\ last_done = "goodbye"
        /\ pc # "recv"
        /\ exit_cause \in {"none", "goodbye"}
        /\ RunExited =>
              /\ pc = "returned"
              /\ exit_cause = "goodbye"
              /\ ~Capturing(AUDIO)
              /\ AUDIO.open_streams = {}

\* C33: playback blocks the state machine only for greeting and goodbye.  At
\* the response.done of an ordinary turn (not greeting, not terminating)
\* whose audio starts to play, the receive loop goes on while it plays; at
\* the response.done of the greeting or of a terminating response with audio
\* the loop stops receiving, inbound events are handled only in the receive
\* loop, and the handler comes back only when nothing is playing.
C33_PlaybackBlocksOnlyGreetingAndGoodbye ==
    [][/\ (response_chunks # <<>> /\ pc = "recv" /\ RecvResponseDone(TRUE)) =>
             IF is_greeting \/ is_terminating
             THEN pc' = "await_play"
             ELSE pc' = "recv" /\ is_playing(AUDIO') /\ Receiving'
       /\ pc = "recv" \/ ~HandlesEvent
       /\ (pc = "await_play" /\ pc' # "await_play") => ~is_playing(AUDIO)]_vars

\* C33 witness: a delta of the next response has been handled while the
\* audio of the reply before it still plays.
C33_Witness ==
    /\ Receiving
    /\ last_done = "reply"
    /\ ResponsePlayback
    /\ cur_deltas > 0
    /\ ~cur_interrupted

\* C34: a device error of start_recording in _listen, at the transition from
\* greeting to listening, ends the session: the receive loop is left by that
\* exception with no upload consumer created, cleanup runs, and run() returns
\* (it does not raise) with the connection closed and no stream open.
C34_CaptureFailureEndsSession ==
    [][/\ Greeted("open_fails") =>
             /\ pc' = "fin_mem"
             /\ exit_cause' = "exception"
             /\ upload_task' = "none"
       /\ (main_pc' = "session" /\ ~is_greeting' /\ upload_task' = "none") =>
             /\ exit_cause' = "exception"
             /\ pc' \in {"fin_mem", "fin_close", "returned"}
             /\ pc' = "returned" =>
                   (websocket' = "closed" /\ AUDIO'.open_streams = {}
                      /\ AUDIO'.input_stream = NoStream)]_vars

\* C34 witness: run() has returned from a session whose capture could not be
\* started after the greeting.
C34_Witness ==
    /\ main_pc = "session"
    /\ pc = "returned"
    /\ last_done = "greeting"
    /\ ~is_greeting
    /\ upload_task = "none"
    /\ exit_cause = "exception"
    /\ websocket = "closed"

\* C36: after any sequence of start_recording / stop_recording calls
\* self.input_stream is None or refers to an open stream.
C36_InputStreamOpenOrNone ==
    AUDIO.input_stream # NoStream => AUDIO.input_stream \in AUDIO.open_streams

\* C37: a session that ends while still in the greeting phase (connect
\* failure, greeting timeout, remote error or exception before the first
\* response.done was answered) never started capture and never created an
\* upload consumer: no stream is open, no frame was captured or sent.
C37_GreetingEndNeverCaptured ==
    (main_pc = "session" /\ is_greeting /\ exit_cause # "none") =>
        /\ upload_task = "none"
        /\ AUDIO.open_streams = {}
        /\ AUDIO.input_stream = NoStream
        /\ captured = 0
        /\ sent = <<>>

\* C37 witness: run() has returned from a session ended by the greeting
\* timeout, after the connection was opened.
C37_Witness ==
    /\ RunExited
    /\ is_greeting
    /\ exit_cause = "timeout"
    /\ websocket = "closed"

\* C38: in one session the upload consumer task is created at most once, and
\* only after the capture stream was started: a step that creates it finds no
\* task and leaves the capture stream open, and a session that has a task
\* never goes back to having none.
C38_OneUploadTaskAfterCapture ==
    [][(main_pc = "session" /\ main_pc' = "session") =>
          /\ ((\E o \in RecordingOutcomes : Greeted(o)) /\ upload_task' # "none") =>
                (upload_task = "none" /\ upload_task' = "running" /\ Capturing(AUDIO'))
          /\ (upload_task # upload_task' /\ upload_task' = "running") =>
                \E o \in RecordingOutcomes : Greeted(o)
          /\ upload_task # "none" => upload_task' # "none"]_vars

\* C38 witness: the one upload consumer of a session runs, after the reply
\* to a transcript, and has sent a frame of the capture stream.
C38_Witness ==
    /\ main_pc = "session"
    /\ upload_task = "running"
    /\ last_done = "reply"
    /\ Capturing(AUDIO)
    /\ sent # <<>>

\* C35: listen() returns a keyword only when predict(), on a frame captured
\* during this call, scored that keyword strictly above the threshold and no
\* keyword higher; a frame whose best score is at or below the threshold
\* never ends the call.
C35_KeywordOnlyAboveThreshold ==
    [][/\ (main_pc' = "idle" /\ pc' = "keyword" /\ main_pc = "listening") =>
             /\ wake_word' \in Keywords
             /\ prediction' \in Predictions
             /\ prediction'[wake_word'] > threshold
             /\ \A k \in Keywords : prediction'[k] <= prediction'[wake_word']
             /\ \E f \in scorer' \ scorer : f > listen_from
       /\ (/\ main_pc = "listening"
           /\ scorer' # scorer
           /\ pc' # "raised"
           /\ \A k \in Keywords : prediction'[k] <= threshold) =>
             (main_pc' = "listening" /\ wake_word' = NoWakeWord)
       /\ wake_word' # wake_word =>
             (wake_word' = NoWakeWord \/ (main_pc' = "idle" /\ pc' = "keyword"))]_vars

\* C35 witness: listen() returned the second keyword on a frame that scored
\* the first keyword exactly at the threshold.
C35_Witness ==
    /\ main_pc = "idle"
    /\ pc = "keyword"
    /\ wake_word = 2
    /\ prediction[1] = threshold
    /\ listen_from > 0

\* C39: for every wake word the detector can return, _wake_word_language
\* returns a key of the active profile's learning_languages, and the
\* construction of the session for that language never fails.
C39_LanguageIsLearned ==
    /\ lang # NoLanguage => lang \in Range(profile.learning_languages)
    /\ main_pc = "done" => main_exit # "construct"

\* C40: a set_speaking(True) issued at a response.done is followed by a
\* set_speaking(False), also when the response had no audio: once run() has
\* exited and no playback-completion task is left to call it, the display is
\* not speaking.
C40_SpeakingCleared ==
    (RunExited /\ poll_tasks = 0) => ~is_speaking

\* C32: for every gain at or above zero and every int16 frame, each sample
\* gain_callback hands to the consumer is within [-32768, 32767]; a product
\* beyond a bound comes out as that bound, a product within the bounds comes
\* out less than one away from itself, and with gain 1.0 the frame is handed
\* on as it is.
C32_GainSaturates ==
    processed # NoFrame =>
        /\ DOMAIN processed = DOMAIN indata
        /\ \A i \in DOMAIN indata :
              LET product == indata[i] * input_gain
                  out == processed[i] * GainOne
              IN  /\ processed[i] \in -32768..32767
                  /\ product >= 32767 * GainOne => processed[i] = 32767
                  /\ product <= -32768 * GainOne => processed[i] = -32768
                  /\ (product > -32768 * GainOne /\ product < 32767 * GainOne) =>
                        (out - product < GainOne /\ product - out < GainOne)
        /\ input_gain = GainOne => processed = indata

\* C32 witness: a frame handed on with one sample saturated at each bound.
C32_Witness ==
    /\ Len(processed) = 2
    /\ indata[1] * input_gain > 32767 * GainOne
    /\ indata[2] * input_gain < -32768 * GainOne
    /\ processed = <<32767, -32768>>

\* C31: _is_sleep_word is true exactly when the similarity of the lower-cased
\* sleep phrase and the transcript (trimmed, lower-cased, without , . ! ?) is
\* at or above the threshold, the boundary included, and false for an empty
\* transcript or an empty phrase; "good night!!" matches the phrase "good
\* night" and "good morning" does not at threshold 85.
C31_SleepWordAtOrAboveThreshold ==
    sleep_match # "none" =>
        LET similarity == partial_ratio(lower(sleep_word), re_sub(lower(strip(text))))
        IN  /\ (text = <<>> \/ sleep_word = <<>>) => sleep_match = "no"
            /\ (text # <<>> /\ sleep_word # <<>>) =>
                  (sleep_match = "yes" <=>
                      similarity.num >= sleep_word_threshold * similarity.den)
            /\ (sleep_word = GoodNight /\ text = GoodNightBang) => sleep_match = "yes"
            /\ (sleep_word = GoodNight /\ text = GoodMorning
                    /\ sleep_word_threshold = 85) => sleep_match = "no"

\* C31 witness: a transcript whose similarity is exactly the threshold was
\* taken for the sleep phrase.
C31_Witness ==
    /\ sleep_match = "yes"
    /\ text # <<>>
    /\ LET similarity == partial_ratio(lower(sleep_word), re_sub(lower(strip(text))))
       IN  similarity.num = sleep_word_threshold * similarity.den
====
